---- MODULE Spec2Model ----
(***************************************************************************)
(* A model of the exam-guide analysis engine:                              *)
(*   analyzer.py        calculate_importance                               *)
(*   fetcher.py         get_cached_content, save_to_cache,                 *)
(*                      fetch_topic_content                                *)
(*   deep_relations.py  analyze_deep_relations                             *)
(*   app.py             importance extraction, min_strength edge filter    *)
(*   visualizer.py      create_knowledge_graph                             *)
(*   metrics.py         estimate_effort                                    *)
(*                                                                         *)
(* Similarities are fixed-point numbers in thousandths (450 is 0.45);      *)
(* importance scores are in hundredths (2 decimal digits).  Texts are      *)
(* represented by the statistics the code reads from them.                 *)
(***************************************************************************)
EXTENDS Integers, Sequences, FiniteSets, TLC

VARIABLES
    run,                \* which entry point this behaviour executes
    topics,             \* the topic list handed to the entry point
    \* ---- analyzer.py / app.py importance extraction
    pyqs,               \* the question list
    pyqs_none,          \* TRUE when pyqs was not supplied (None)
    cos_tq,             \* embedding provider: topic x question similarity
    imp_pc,             \* position in calculate_importance
    imp_i,              \* loop index of `for i, topic in enumerate(topics)`
    importance_scores,  \* the dict being built / returned
    encode_calls,       \* number of model.encode calls made
    node_data,          \* app.py: per topic {"score", "matches"} record
    \* ---- relevance threshold study
    thr_lo, thr_hi,     \* two relevance thresholds, thr_lo <= thr_hi
    thr_row,            \* one row of the topic x question matrix
    thr_pc,             \* position in the threshold study
    thr_out,            \* scores and match counts under both thresholds
    \* ---- fetcher.py / deep_relations.py
    web_len,            \* per topic: length of the text extracted from the web
    cache,              \* cache_content/: per topic, length of the cached text
    cos_cc,             \* embedding provider: content x content similarity
    rel_pc,             \* position in analyze_deep_relations and its caller
    rel_i,              \* loop index of `for topic in topics`
    valid_topics,       \* topics with enough content
    topic_contents,     \* their contents (lengths), same order
    relations,          \* the returned list of {topic_a, topic_b, score}
    \* ---- app.py / visualizer.py graph
    min_strength,       \* app.py slider value
    focus_topic,        \* app.py focus selectbox value
    G_nodes,            \* nodes of the networkx graph
    G_edges,            \* its edges: endpoints set -> weight
    gmc_parts,          \* communities while the detection merges them
    communities,        \* the list the detection returns
    topic_colors,       \* visualizer.py: node -> cluster colour
    node_color,         \* visualizer.py: colour each node is drawn with
    \* ---- metrics.py
    eff_text,           \* the text argument, by the statistics read from it
    eff_pc,             \* position in estimate_effort
    eff_work,           \* its locals: complexity, wpm, minutes before rounding
    eff_out,            \* the returned (minutes, label, is_math_heavy)
    \* ---- two calls of calculate_importance on the same topics
    mode_calls,         \* which call is running: 1 without questions, 2 with
    pyqs_next,          \* the questions of the second call
    first_scores,       \* what the first call returned
    first_data,         \* what app.py extracted from it
    \* ---- fetcher.py: two analysis runs and the cache file of one topic
    text_chunks,        \* number of pieces the text reaches the file in
    cache_file,         \* the file: whether it exists and the pieces in it
    run_pc,             \* per run: position in fetch_topic_content / app.py
    run_pos,            \* per run: pieces written through its file handle
    run_seen            \* per run: what get_cached_content returned last

impVars == <<pyqs, pyqs_none, cos_tq, imp_pc, imp_i, importance_scores,
             encode_calls, node_data>>
thrVars == <<thr_lo, thr_hi, thr_row, thr_pc, thr_out>>

relVars == <<web_len, cache, cos_cc, rel_pc, rel_i, valid_topics,
             topic_contents, relations>>
relVarsButPc == <<web_len, cache, cos_cc, rel_i, valid_topics, topic_contents,
                  relations>>
graphVars == <<min_strength, focus_topic, G_nodes, G_edges, gmc_parts,
               communities, topic_colors, node_color>>

effVars == <<eff_text, eff_pc, eff_work, eff_out>>

modeVars == <<mode_calls, pyqs_next, first_scores, first_data>>

fileVars == <<text_chunks, cache_file, run_pc, run_pos, run_seen>>

vars == <<run, topics, impVars, thrVars, relVars, graphVars, effVars, modeVars,
          fileVars>>

\* what each entry point leaves alone
notImp == <<thrVars, relVars, graphVars, effVars, modeVars, fileVars>>
notThr == <<impVars, relVars, graphVars, effVars, modeVars, fileVars>>
notRel == <<impVars, thrVars, effVars, modeVars, fileVars>>
notEff == <<impVars, thrVars, relVars, graphVars, modeVars, fileVars>>
notFile == <<impVars, thrVars, relVars, graphVars, effVars, modeVars>>

(***************************************************************************)
(* Bounds of the model.                                                    *)
(***************************************************************************)
MaxTopics == 2
MaxQuestions == 2
MaxRow == 3

MaxSyllabus == 3
MaxWordBlocks == 100
MaxChunks == 2

\* the analysis runs that execute at the same time
AnalysisRuns == {"run1", "run2"}

TopicNames == {"Sorting", "Graphs"}
\* lines a syllabus file may hold
SyllabusLines == {"Sorting", "Graphs", "Hashing"}
\* lengths of the text the web yields for a topic (0: nothing was found)
ContentLens(r) == IF r = "app" THEN {0, 499, 500, 501} ELSE {0, 501}
\* similarities of two different contents, in thousandths
SimValuesCC(r) == IF r = "app" THEN {200, 400, 450} ELSE {350, 450}
\* positions of the app.py slider (0.1 to 1.0 in steps of 0.05), in thousandths
MinStrengths == {150, 400, 450}
QuestionNames == {"q1", "q2"}
\* similarities the embedding provider may report, in thousandths
SimValuesTQ == {-200, 450, 455, 700}
\* relevance thresholds tried in the threshold study, in thousandths
Thresholds == {-500, -100, 0, 450, 600}

\* text lengths in characters (None has none)
TextLens == {0, 99, 100, 6000}
\* occurrences of math signal words in a text
MathHits == {0, 1, 18, 19}
\* textstat.flesch_reading_ease values
ReadingEases == {-10, 29, 30, 39, 40, 49, 50, 59, 60, 100}

(***************************************************************************)
(* Helpers.                                                                *)
(***************************************************************************)
Range(s) == {s[k] : k \in 1..Len(s)}

SeqsBetween(S, lo, hi) == UNION {[1..k -> S] : k \in lo..hi}

\* Python round(): to the nearest integer, ties to the even one.
\* RoundHalfEven(n, d) is round(n / d) for d > 0.
RoundHalfEven(n, d) ==
    LET q == n \div d
        r == n % d
    IN  IF 2 * r < d THEN q
        ELSE IF 2 * r > d THEN q + 1
        ELSE IF q % 2 = 0 THEN q ELSE q + 1

RECURSIVE SeqSum(_)
SeqSum(s) == IF s = <<>> THEN 0 ELSE Head(s) + SeqSum(Tail(s))

(***************************************************************************)
(* analyzer.py: calculate_importance                                       *)
(***************************************************************************)
RelevanceThreshold == 450

\* `if pyqs is None`: a guard that lets an empty list through
OnlyNoneIsFalsy(isNone, qs) == isNone

\* `not pyqs`
Falsy(isNone, qs) == isNone \/ qs = <<>>

\* {t: 0 for t in topics}
ZeroScores(ts) == [t \in Range(ts) |-> 0]

\* cosine_scores[i]: the row of topic ts[i] against every question
CosineRow(ts, qs, i) == [j \in 1..Len(qs) |-> cos_tq[<<ts[i], qs[j]>>]]

\* matches[matches < thr]: a selection with the comparison reversed
SelectBelow(matches, thr) == SelectSeq(matches, LAMBDA x : x < thr)

\* matches[matches >= thr]: a selection that also keeps the boundary value
SelectAtLeast(matches, thr) == SelectSeq(matches, LAMBDA x : x >= thr)

\* matches[matches > thr]
SignificantMatches(matches, thr) == SelectSeq(matches, LAMBDA x : x > thr)

\* round(float(significant_matches.sum()), 2), in hundredths
TotalScore(matches, thr) ==
    RoundHalfEven(SeqSum(SignificantMatches(matches, thr)), 10)

\* lines 15-17: no questions, every topic gets 0 and nothing is encoded
CalcNoPyqs ==
    /\ imp_pc = "call"
    /\ Falsy(pyqs_none, pyqs)
    /\ importance_scores' = ZeroScores(topics)
    /\ imp_pc' = "returned"
    /\ UNCHANGED <<run, topics, pyqs, pyqs_none, cos_tq, imp_i, encode_calls,
                   node_data, notImp>>

\* lines 19-31: encode topics and questions, start the loop
CalcEncode ==
    /\ imp_pc = "call"
    /\ ~Falsy(pyqs_none, pyqs)
    /\ encode_calls' = encode_calls + 2
    /\ importance_scores' = <<>>
    /\ imp_i' = 1
    /\ imp_pc' = "loop"
    /\ UNCHANGED <<run, topics, pyqs, pyqs_none, cos_tq, node_data, notImp>>

\* lines 33-42: one iteration of the loop over the topics
CalcRow ==
    /\ imp_pc = "loop"
    /\ imp_i <= Len(topics)
    /\ LET topic == topics[imp_i]
           score == TotalScore(CosineRow(topics, pyqs, imp_i), RelevanceThreshold)
       IN  importance_scores' =
               [t \in DOMAIN importance_scores \cup {topic} |->
                   IF t = topic THEN score ELSE importance_scores[t]]
    /\ imp_i' = imp_i + 1
    /\ UNCHANGED <<run, topics, pyqs, pyqs_none, cos_tq, imp_pc, encode_calls,
                   node_data, notImp>>

\* line 44
CalcReturn ==
    /\ imp_pc = "loop"
    /\ imp_i > Len(topics)
    /\ imp_pc' = "returned"
    /\ UNCHANGED <<run, topics, pyqs, pyqs_none, cos_tq, imp_i,
                   importance_scores, encode_calls, node_data, notImp>>

\* app.py lines 92-102: calculate_importance returns bare numbers, so the
\* isinstance(raw_data, (int, float)) branch wraps each one
ExtractRecord(scores, topic) ==
    IF topic \in DOMAIN scores
    THEN [score |-> scores[topic], matches |-> <<>>]
    ELSE [score |-> 0, matches |-> <<>>]

AppExtract ==
    /\ imp_pc = "returned"
    /\ node_data' = [t \in Range(topics) |-> ExtractRecord(importance_scores, t)]
    /\ imp_pc' = "extracted"
    /\ UNCHANGED <<run, topics, pyqs, pyqs_none, cos_tq, imp_i,
                   importance_scores, encode_calls, notImp>>

ImpNext == CalcNoPyqs \/ CalcEncode \/ CalcRow \/ CalcReturn \/ AppExtract

\* app.py lines 49-50 again: a second analysis of the same topics, this time
\* with questions; what the first one gave is kept for comparison
CallAgain ==
    /\ run = "modes"
    /\ mode_calls = 1
    /\ imp_pc = "extracted"
    /\ first_scores' = importance_scores
    /\ first_data' = node_data
    /\ mode_calls' = 2
    /\ pyqs' = pyqs_next
    /\ pyqs_none' = FALSE
    /\ imp_pc' = "call"
    /\ imp_i' = 0
    /\ importance_scores' = <<>>
    /\ node_data' = <<>>
    /\ UNCHANGED <<run, topics, cos_tq, encode_calls, pyqs_next, thrVars,
                   relVars, graphVars, effVars, fileVars>>

ModesNext == ImpNext \/ CallAgain

(***************************************************************************)
(* The row scoring of calculate_importance (lines 35-42) as a function of  *)
(* the relevance threshold.                                                *)
(***************************************************************************)
\* before the row has been scored
NoOutcome == [score_lo |-> 0, score_hi |-> 0, count_lo |-> 0, count_hi |-> 0]

ScoreBoth ==
    /\ thr_pc = "call"
    /\ thr_pc' = "done"
    /\ thr_out' = [score_lo |-> TotalScore(thr_row, thr_lo),
                   score_hi |-> TotalScore(thr_row, thr_hi),
                   count_lo |-> Len(SignificantMatches(thr_row, thr_lo)),
                   count_hi |-> Len(SignificantMatches(thr_row, thr_hi))]
    /\ UNCHANGED <<run, topics, notThr, thr_lo, thr_hi, thr_row>>

ThrNext == ScoreBoth

(***************************************************************************)
(* Claims about calculate_importance.                                      *)
(***************************************************************************)
ImpReturned == imp_pc \in {"returned", "extracted"}

NoQuestions == pyqs_none \/ Len(pyqs) = 0

\* C1: when calculate_importance is called with an empty or absent question
\* list, every topic of the input list gets score 0, the record the app
\* extracts for it has score 0 and an empty matched-question list, and no
\* embedding has been computed.
C1_EmptyQuestionsAllZero ==
    (ImpReturned /\ NoQuestions) =>
        /\ encode_calls = 0
        /\ \A k \in 1..Len(topics) :
              /\ topics[k] \in DOMAIN importance_scores
              /\ importance_scores[topics[k]] = 0
        /\ imp_pc = "extracted" =>
              \A k \in 1..Len(topics) :
                  node_data[topics[k]] = [score |-> 0, matches |-> <<>>]

C1_Witness ==
    /\ imp_pc = "extracted"
    /\ pyqs = <<>>
    /\ ~pyqs_none
    /\ Len(topics) = 2
    /\ topics[1] # topics[2]
    /\ node_data[topics[2]].score = 0

\* the questions of the list, by position, whose similarity to topic t is
\* strictly above the relevance threshold
MatchedPositions(t) ==
    {j \in 1..Len(pyqs) : cos_tq[<<t, pyqs[j]>>] > RelevanceThreshold}

RECURSIVE SumOverPositions(_, _)
SumOverPositions(t, P) ==
    IF P = {} THEN 0
    ELSE LET j == CHOOSE x \in P : TRUE
         IN  cos_tq[<<t, pyqs[j]>>] + SumOverPositions(t, P \ {j})

\* C6: with a non-empty question list, each topic's score is the sum of the
\* similarities of exactly the questions of its row that are strictly above
\* 0.45 (each position counts, so repeated questions each contribute),
\* rounded to the nearest hundredth, and it is never negative.
C6_ScoreIsThresholdedSum ==
    (ImpReturned /\ ~NoQuestions) =>
        \A k \in 1..Len(topics) :
            LET t == topics[k]
                exact == SumOverPositions(t, MatchedPositions(t))
                s == importance_scores[t]
            IN  /\ 10 * s - exact <= 5
                /\ exact - 10 * s <= 5
                /\ s >= 0

C6_Witness ==
    /\ imp_pc = "returned"
    /\ pyqs = <<"q1", "q2">>
    /\ \E k \in 1..Len(topics) :
          /\ cos_tq[<<topics[k], "q1">>] = RelevanceThreshold
          /\ cos_tq[<<topics[k], "q2">>] = 700
          /\ importance_scores[topics[k]] = 70

MinContentLength == 500

\* get_cached_content: the cached text, or None
GetCachedContent(c, topic) == c[topic]

\* save_to_cache
SaveToCache(c, topic, text) == [c EXCEPT ![topic] = text]

\* lines 103-110: `if text and len(text) > 500`
Usable(text) == text # 0 /\ text > MinContentLength

\* fetch_topic_content: the text returned and the cache afterwards
FetchTopicContent(c, topic) ==
    LET cached == GetCachedContent(c, topic)
        text == web_len[topic]
    IN  IF cached # 0 THEN [content |-> cached, cache |-> c]
        ELSE IF Usable(text)
             THEN [content |-> text, cache |-> SaveToCache(c, topic, text)]
             ELSE [content |-> 0, cache |-> c]

(***************************************************************************)
(* deep_relations.py: analyze_deep_relations                               *)
(***************************************************************************)
RelationThreshold == 300

\* line 19: `if content and len(content) > 500`
GoodData(content) == content # 0 /\ content > MinContentLength

\* lines 14-23: one iteration of the fetching loop
Gather ==
    /\ rel_pc = "gather"
    /\ rel_i <= Len(topics)
    /\ LET topic == topics[rel_i]
           got == FetchTopicContent(cache, topic)
       IN  /\ cache' = got.cache
           /\ IF GoodData(got.content)
              THEN /\ topic_contents' = Append(topic_contents, got.content)
                   /\ valid_topics' = Append(valid_topics, topic)
              ELSE UNCHANGED <<topic_contents, valid_topics>>
    /\ rel_i' = rel_i + 1
    /\ UNCHANGED <<run, topics, web_len, cos_cc, rel_pc, relations, graphVars,
                   notRel>>

\* lines 25-27: nothing usable was fetched
NoValidTopics ==
    /\ rel_pc = "gather"
    /\ rel_i > Len(topics)
    /\ valid_topics = <<>>
    /\ relations' = <<>>
    /\ rel_pc' = "returned"
    /\ UNCHANGED <<run, topics, web_len, cache, cos_cc, rel_i, valid_topics,
                   topic_contents, graphVars, notRel>>

\* line 38: cosine_scores[i][j]; a text compared with itself scores 1.0
CosineScore(vt, i, j) ==
    IF vt[i] = vt[j] THEN 1000 ELSE cos_cc[{vt[i], vt[j]}]

\* lines 45-46: the pairs (i, j) in the order the two loops visit them
RECURSIVE PairsFrom(_, _, _)
PairsFrom(i, j, n) ==
    IF i > n THEN <<>>
    ELSE IF j > n THEN PairsFrom(i + 1, i + 2, n)
    ELSE <<<<i, j>>>> \o PairsFrom(i, j + 1, n)

\* lines 57-62: the relation appended for a pair
RelationOf(vt, p) ==
    [topic_a |-> vt[p[1]], topic_b |-> vt[p[2]], score |-> CosineScore(vt, p[1], p[2])]

\* lines 45-62: the relations in the order they are appended
RawRelations(vt) ==
    LET ps == PairsFrom(1, 2, Len(vt))
        all == [k \in 1..Len(ps) |-> RelationOf(vt, ps[k])]
    IN  SelectSeq(all, LAMBDA r : r.score > RelationThreshold)

\* line 65: list.sort(key=score, reverse=True), which is stable
RECURSIVE InsertDesc(_, _)
InsertDesc(r, s) ==
    IF s = <<>> THEN <<r>>
    ELSE IF Head(s).score >= r.score THEN <<Head(s)>> \o InsertDesc(r, Tail(s))
    ELSE <<r>> \o s

RECURSIVE SortPrefix(_, _)
SortPrefix(s, k) == IF k = 0 THEN <<>> ELSE InsertDesc(s[k], SortPrefix(s, k - 1))

SortByScoreDesc(s) == SortPrefix(s, Len(s))

\* lines 29-66: embed, compare every pair, keep the related ones, sort
Analyze ==
    /\ rel_pc = "gather"
    /\ rel_i > Len(topics)
    /\ valid_topics # <<>>
    /\ relations' = SortByScoreDesc(RawRelations(valid_topics))
    /\ rel_pc' = "returned"
    /\ UNCHANGED <<run, topics, web_len, cache, cos_cc, rel_i, valid_topics,
                   topic_contents, graphVars, notRel>>

RelNext == Gather \/ NoValidTopics \/ Analyze

(***************************************************************************)
(* networkx.Graph as the callers use it.                                   *)
(***************************************************************************)
Endpoints(r) == {r.topic_a, r.topic_b}

\* G.add_edge for every relation of rels in turn: a repeated edge keeps
\* the weight given last
AddEdges(rels) ==
    [e \in {Endpoints(rels[k]) : k \in 1..Len(rels)} |->
        LET last == CHOOSE k \in 1..Len(rels) :
                       /\ Endpoints(rels[k]) = e
                       /\ \A l \in 1..Len(rels) : Endpoints(rels[l]) = e => l <= k
        IN  rels[last].score]

\* G.neighbors(n)
Neighbors(edges, n) == {m \in UNION DOMAIN edges : {n, m} \in DOMAIN edges}

(***************************************************************************)
(* app.py: the graph of the dashboard                                      *)
(***************************************************************************)
\* lines 125-127: `if link['score'] >= min_strength`
StrongEnough(rels, strength) == SelectSeq(rels, LAMBDA r : r.score >= strength)

\* lines 85-127: slider, a node per topic, an edge per strong enough relation
AppDrawEdges ==
    /\ run = "app"
    /\ rel_pc = "returned"
    /\ \E strength \in MinStrengths :
          /\ min_strength' = strength
          /\ G_edges' = AddEdges(StrongEnough(relations, strength))
    /\ G_nodes' = Range(topics)
    /\ rel_pc' = "focus"
    /\ UNCHANGED <<run, topics, relVarsButPc, focus_topic, gmc_parts,
                   communities, topic_colors, node_color, notRel>>

\* lines 88, 129-132: keep the focus topic and its neighbours
AppFocus ==
    /\ run = "app"
    /\ rel_pc = "focus"
    /\ \E focus \in {"None"} \cup Range(topics) :
          /\ focus_topic' = focus
          /\ IF focus # "None" /\ focus \in G_nodes
             THEN LET keep == Neighbors(G_edges, focus) \cup {focus}
                  IN  /\ G_nodes' = keep
                      /\ G_edges' = [e \in {x \in DOMAIN G_edges : x \subseteq keep}
                                      |-> G_edges[e]]
             ELSE UNCHANGED <<G_nodes, G_edges>>
    /\ rel_pc' = "rendered"
    /\ UNCHANGED <<run, topics, relVarsButPc, min_strength, gmc_parts,
                   communities, topic_colors, node_color, notRel>>

AppNext == RelNext \/ AppDrawEdges \/ AppFocus

(***************************************************************************)
(* visualizer.py: create_knowledge_graph                                   *)
(***************************************************************************)
DisplayThreshold == 400

\* line 33
Palette == <<"#FF5733", "#33FF57", "#3357FF", "#FF33A1", "#33FFF5", "#F5FF33",
             "#A133FF">>

\* a graph that gets every relation's endpoints as nodes, whether or not
\* the relation passes the display threshold
AllEndpoints(rels, edges) == UNION {Endpoints(rels[k]) : k \in 1..Len(rels)}

\* nodes exist only through G.add_edge (lines 18-20)
NodesOfEdges(rels, edges) == UNION DOMAIN edges

\* lines 19: `if link['score'] > 0.40`
Displayed(rels) == SelectSeq(rels, LAMBDA r : r.score > DisplayThreshold)

\* lines 17-20
VisBuildGraph ==
    /\ run = "visualizer"
    /\ rel_pc = "returned"
    /\ G_edges' = AddEdges(Displayed(relations))
    /\ G_nodes' = NodesOfEdges(relations, AddEdges(Displayed(relations)))
    /\ rel_pc' = "detect"
    /\ UNCHANGED <<run, topics, relVarsButPc, min_strength, focus_topic,
                   gmc_parts, communities, topic_colors, node_color, notRel>>

\* lines 25-29: on a graph without edges the detection raises (it divides
\* by the number of edges) and the bare except leaves communities = []
DetectFallback ==
    /\ rel_pc = "detect"
    /\ DOMAIN G_edges = {}
    /\ communities' = <<>>
    /\ rel_pc' = "colour"
    /\ UNCHANGED <<run, topics, relVarsButPc, min_strength, focus_topic,
                   G_nodes, G_edges, gmc_parts, topic_colors, node_color, notRel>>

\* networkx greedy_modularity_communities: every node starts as its own
\* community ...
GmcStart ==
    /\ rel_pc = "detect"
    /\ DOMAIN G_edges # {}
    /\ gmc_parts' = {{n} : n \in G_nodes}
    /\ rel_pc' = "merging"
    /\ UNCHANGED <<run, topics, relVarsButPc, min_strength, focus_topic,
                   G_nodes, G_edges, communities, topic_colors, node_color,
                   notRel>>

\* ... two communities joined by an edge are merged ...
MergeCommunities(parts, c1, c2) == (parts \ {c1, c2}) \cup {c1 \cup c2}

Joined(edges, c1, c2) == \E a \in c1, b \in c2 : {a, b} \in DOMAIN edges

\* ... the pair being the one whose merger raises modularity most; which
\* pair that is, is left open here
GmcMerge ==
    /\ rel_pc = "merging"
    /\ \E c1, c2 \in gmc_parts :
          /\ c1 # c2
          /\ Joined(G_edges, c1, c2)
          /\ gmc_parts' = MergeCommunities(gmc_parts, c1, c2)
    /\ UNCHANGED <<run, topics, relVars, min_strength, focus_topic, G_nodes,
                   G_edges, communities, topic_colors, node_color, notRel>>

\* the orders in which the communities may be listed: largest first
LargestFirst(parts) ==
    {s \in [1..Cardinality(parts) -> parts] :
        /\ \A k, l \in DOMAIN s : k # l => s[k] # s[l]
        /\ \A k, l \in DOMAIN s : k < l => Cardinality(s[k]) >= Cardinality(s[l])}

\* ... until no merger improves modularity
GmcReturn ==
    /\ rel_pc = "merging"
    /\ communities' \in LargestFirst(gmc_parts)
    /\ rel_pc' = "colour"
    /\ UNCHANGED <<run, topics, relVarsButPc, min_strength, focus_topic,
                   G_nodes, G_edges, gmc_parts, topic_colors, node_color, notRel>>

\* lines 36-40: later communities overwrite the colour of earlier ones
TopicColors(comms) ==
    [n \in UNION Range(comms) |->
        LET last == CHOOSE k \in 1..Len(comms) :
                       /\ n \in comms[k]
                       /\ \A l \in 1..Len(comms) : n \in comms[l] => l <= k
        IN  Palette[((last - 1) % Len(Palette)) + 1]]

AssignColors ==
    /\ rel_pc = "colour"
    /\ topic_colors' = TopicColors(communities)
    /\ rel_pc' = "nodes"
    /\ UNCHANGED <<run, topics, relVarsButPc, min_strength, focus_topic,
                   G_nodes, G_edges, gmc_parts, communities, node_color, notRel>>

\* lines 49-57: topic_colors.get(node, "#ffffff")
AddNodes ==
    /\ rel_pc = "nodes"
    /\ node_color' = [n \in G_nodes |->
                        IF n \in DOMAIN topic_colors THEN topic_colors[n]
                        ELSE "#ffffff"]
    /\ rel_pc' = "saved"
    /\ UNCHANGED <<run, topics, relVarsButPc, min_strength, focus_topic,
                   G_nodes, G_edges, gmc_parts, communities, topic_colors, notRel>>

VisNext ==
    \/ RelNext
    \/ VisBuildGraph
    \/ DetectFallback
    \/ GmcStart
    \/ GmcMerge
    \/ GmcReturn
    \/ AssignColors
    \/ AddNodes

(***************************************************************************)
(* Claims about analyze_deep_relations and the graph built from it.        *)
(***************************************************************************)
Gathered == rel_pc \in {"returned", "focus", "rendered"}

\* C2: for every threshold the caller chooses and every pair of distinct
\* valid topics, the graph has an edge between them if and only if their
\* similarity is strictly greater than that threshold.
C2_EdgeIffAboveCallerThreshold ==
    rel_pc = "focus" =>
        \A i, j \in 1..Len(valid_topics) :
            valid_topics[i] # valid_topics[j] =>
                ({valid_topics[i], valid_topics[j]} \in DOMAIN G_edges
                    <=> CosineScore(valid_topics, i, j) > min_strength)

\* C3: a topic is left out of the similarity computation exactly when its
\* content is missing or shorter than 500 characters; every topic whose
\* content has 500 characters or more is a valid topic.
C3_ValidIffAtLeast500 ==
    Gathered =>
        \A k \in 1..Len(topics) :
            topics[k] \in Range(valid_topics)
                <=> web_len[topics[k]] >= MinContentLength

\* C4: no relation has the same topic at both ends, so the graph built from
\* the relations has no self-edge.
C4_NoSelfRelation ==
    Gathered =>
        /\ \A k \in 1..Len(relations) : relations[k].topic_a # relations[k].topic_b
        /\ rel_pc = "focus" => \A e \in DOMAIN G_edges : Cardinality(e) = 2

\* C5: every relation carries the similarity-matrix value of its pair as its
\* score, and each unordered pair of topics appears at most once.
C5_WeightAndSinglePair ==
    Gathered =>
        /\ \A k \in 1..Len(relations) :
              LET r == relations[k]
              IN  r.score = IF r.topic_a = r.topic_b THEN 1000
                            ELSE cos_cc[{r.topic_a, r.topic_b}]
        /\ \A k, l \in 1..Len(relations) :
              k # l => Endpoints(relations[k]) # Endpoints(relations[l])

Detected == rel_pc \in {"colour", "nodes", "saved"}

CommunitiesOf(n) == {k \in 1..Len(communities) : n \in communities[k]}

\* C8: the detected communities partition the node set of the graph: every
\* node is in exactly one community, the union of the communities is the
\* node set, the communities are pairwise disjoint, and every node is drawn
\* with the colour of its one community - also when the graph has no edges.
C8_CommunitiesPartitionNodes ==
    (run = "visualizer" /\ Detected) =>
        /\ \A n \in G_nodes : Cardinality(CommunitiesOf(n)) = 1
        /\ UNION Range(communities) = G_nodes
        /\ \A k, l \in 1..Len(communities) :
              k # l => communities[k] \cap communities[l] = {}
        /\ rel_pc = "saved" =>
              \A n \in G_nodes :
                  \E k \in CommunitiesOf(n) :
                      node_color[n] = Palette[((k - 1) % Len(Palette)) + 1]

C8_Witness ==
    /\ run = "visualizer"
    /\ rel_pc = "saved"
    /\ Cardinality(G_nodes) = 3
    /\ Len(communities) = 2
    /\ \E n \in G_nodes : node_color[n] = Palette[2]

(***************************************************************************)
(* metrics.py: estimate_effort.  Minutes before rounding are kept as the   *)
(* exact fraction num / den.                                               *)
(***************************************************************************)
MinEffortLength == 100
DefaultWpm == 130
DenseWpm == 100
HardWpm == 70
MinMinutes == 5

\* line 9: `not text or len(text) < 100`
TooShort(text) == text.none \/ text.len = 0 \/ text.len < MinEffortLength

\* line 26: math_hits > (len(text) / 1000 * 3)
IsMathHeavy(text) == text.hits * 1000 > text.len * 3

\* the speed chosen with the boundaries of the difficulty label (60 / 30)
ReadingSpeedSixty(complexity) ==
    IF complexity < 30 THEN HardWpm
    ELSE IF complexity < 60 THEN DenseWpm
    ELSE DefaultWpm

\* lines 30-35
ReadingSpeed(complexity) ==
    IF complexity < 30 THEN HardWpm
    ELSE IF complexity < 50 THEN DenseWpm
    ELSE DefaultWpm

\* lines 43-44: minutes * 1.6
MathPenalty(m, heavy) ==
    IF heavy THEN [num |-> m.num * 16, den |-> m.den * 10] ELSE m

\* line 47: int(5 * round(minutes / 5))
RoundToFive(m) == 5 * RoundHalfEven(m.num, 5 * m.den)

\* a result without line 48
NoFloor(minutes) == minutes

\* line 48: `if minutes < 5: minutes = 5`
FloorAtFive(minutes) == IF minutes < MinMinutes THEN MinMinutes ELSE minutes

\* lines 51-53 with the two tests in the other order, so that the
\* Moderate test decides first
LabelModerateFirst(complexity, heavy) ==
    IF complexity < 60 THEN "Moderate"
    ELSE IF complexity < 40 \/ heavy THEN "Hard"
    ELSE "Easy"

\* lines 51-53
DifficultyLabel(complexity, heavy) ==
    IF complexity < 40 \/ heavy THEN "Hard"
    ELSE IF complexity < 60 THEN "Moderate"
    ELSE "Easy"

NoWork == [complexity |-> 0, wpm |-> 0, base |-> [num |-> 0, den |-> 1]]

NoEffort == [minutes |-> 0, label |-> "", is_math_heavy |-> FALSE]

\* lines 9-10
EffortDefault ==
    /\ eff_pc = "call"
    /\ TooShort(eff_text)
    /\ eff_out' = [minutes |-> MinMinutes, label |-> "Unknown", is_math_heavy |-> FALSE]
    /\ eff_pc' = "returned"
    /\ UNCHANGED <<run, topics, eff_text, eff_work, notEff>>

\* lines 12-55
EffortCompute ==
    /\ eff_pc = "call"
    /\ ~TooShort(eff_text)
    /\ LET heavy == IsMathHeavy(eff_text)
           complexity == eff_text.ease
           wpm == ReadingSpeed(complexity)
           base == [num |-> eff_text.words, den |-> wpm]
       IN  /\ eff_work' = [complexity |-> complexity, wpm |-> wpm, base |-> base]
           /\ eff_out' = [minutes |-> FloorAtFive(RoundToFive(MathPenalty(base, heavy))),
                          label |-> DifficultyLabel(complexity, heavy),
                          is_math_heavy |-> heavy]
    /\ eff_pc' = "returned"
    /\ UNCHANGED <<run, topics, eff_text, notEff>>

EffNext == EffortDefault \/ EffortCompute

\* the texts estimate_effort is called with: words and hits fit in the text
EffortTexts ==
    {[none |-> TRUE, len |-> 0, words |-> 0, hits |-> 0, ease |-> 0]} \cup
    {t \in [none : {FALSE}, len : TextLens,
            words : {13 * k : k \in 0..MaxWordBlocks},
            hits : MathHits, ease : ReadingEases] :
        /\ 2 * t.words <= t.len + 1
        /\ t.hits <= t.len}

(***************************************************************************)
(* Claims about estimate_effort.                                           *)
(***************************************************************************)
\* C9: for every input - missing, empty, short or long, math-heavy or not -
\* the returned minutes is a multiple of 5 and at least 5.
C9_MinutesMultipleOfFiveAtLeastFive ==
    eff_pc = "returned" =>
        /\ eff_out.minutes % 5 = 0
        /\ eff_out.minutes >= 5

C9_Witness ==
    /\ eff_pc = "returned"
    /\ ~eff_text.none
    /\ eff_text.len >= 100
    /\ eff_text.words = 13
    /\ eff_out.is_math_heavy
    /\ eff_out.minutes = 5

Computed == eff_pc = "returned" /\ ~eff_text.none /\ eff_text.len >= 100

\* C10 as stated: for content of at least 100 characters, readability >= 60
\* uses the default speed, 30 to 60 the reduced speed, below 30 the further
\* reduced speed; base minutes is word_count divided by that speed.
C10_SpeedBoundariesSixtyThirty ==
    Computed =>
        /\ eff_text.ease >= 60 => eff_work.wpm = DefaultWpm
        /\ (eff_text.ease >= 30 /\ eff_text.ease < 60) => eff_work.wpm = DenseWpm
        /\ eff_text.ease < 30 => eff_work.wpm = HardWpm
        /\ eff_work.base = [num |-> eff_text.words, den |-> eff_work.wpm]

\* C10 amended: readability >= 50 uses the default speed, readability from
\* 30 up to but not including 50 the reduced speed, readability < 30 the
\* further reduced speed; base minutes is word_count divided by that speed.
C10_SpeedBoundariesFiftyThirty ==
    Computed =>
        /\ eff_text.ease >= 50 => eff_work.wpm = DefaultWpm
        /\ (eff_text.ease >= 30 /\ eff_text.ease < 50) => eff_work.wpm = DenseWpm
        /\ eff_text.ease < 30 => eff_work.wpm = HardWpm
        /\ eff_work.base = [num |-> eff_text.words, den |-> eff_work.wpm]

C10_Witness ==
    /\ Computed
    /\ eff_text.ease = 59
    /\ eff_text.words = 1300
    /\ eff_work.wpm = DefaultWpm
    /\ eff_out.minutes = 10

\* C11: the label is Unknown exactly when the content is missing or shorter
\* than 100 characters (then minutes is 5 and the math flag is false);
\* otherwise it is Hard if readability < 40 or the content is math-heavy,
\* Moderate if readability < 60 and not Hard, and Easy in every other case.
C11_DifficultyLabel ==
    eff_pc = "returned" =>
        LET short == eff_text.none \/ eff_text.len < 100
            hard == eff_text.ease < 40 \/ eff_out.is_math_heavy
        IN  /\ eff_out.label = "Unknown" <=> short
            /\ short => (eff_out.minutes = 5 /\ ~eff_out.is_math_heavy)
            /\ ~short =>
                  /\ eff_out.label = "Hard" <=> hard
                  /\ eff_out.label = "Moderate" <=> (eff_text.ease < 60 /\ ~hard)
                  /\ eff_out.label = "Easy" <=> (eff_text.ease >= 60 /\ ~hard)
                  /\ eff_out.is_math_heavy <=> eff_text.hits * 1000 > eff_text.len * 3

C11_Witness ==
    /\ eff_pc = "returned"
    /\ ~eff_text.none
    /\ eff_text.len = 100
    /\ eff_text.ease = 100
    /\ eff_out.is_math_heavy
    /\ eff_out.label = "Hard"

(***************************************************************************)
(* Claims about the two modes of calculate_importance.                     *)
(***************************************************************************)
\* the questions were compared and none is above the relevance threshold
NoMatchFound ==
    \A k \in 1..Len(topics), j \in 1..Len(pyqs) :
        cos_tq[<<topics[k], pyqs[j]>>] <= RelevanceThreshold

\* C12: for the same topic list, what calculate_importance gives without
\* questions differs from what it gives when questions were supplied and no
\* similarity exceeded the threshold (in the returned scores, or at least in
\* the records app.py makes of them).
C12_ModesDistinguishable ==
    (run = "modes" /\ mode_calls = 2 /\ imp_pc = "extracted" /\ NoMatchFound) =>
        \/ importance_scores # first_scores
        \/ node_data # first_data

(***************************************************************************)
(* fetcher.py with two analysis runs working on the same topic at once.    *)
(* Both find the same text on the web.  The text reaches the file in       *)
(* text_chunks pieces (the writes the file object's buffer is flushed in); *)
(* piece k of the text is the number k, and 0 is a gap left where a        *)
(* handle wrote beyond the end of the file.                                *)
(***************************************************************************)
CompleteText == [k \in 1..text_chunks |-> k]

NothingSeen == [kind |-> "unread", data |-> <<>>]

\* lines 46-51: os.path.exists, then open and f.read()
ReadCacheFile(file) ==
    IF file.exists THEN [kind |-> "text", data |-> file.data]
    ELSE [kind |-> "None", data |-> <<>>]

\* line 57: open(filepath, 'w') creates the file or empties it
Truncated == [exists |-> TRUE, data |-> <<>>]

\* line 58: one piece of f.write(text) arriving at position k of the file
WritePiece(file, k) ==
    [exists |-> TRUE,
     data |-> [i \in 1..(IF Len(file.data) > k THEN Len(file.data) ELSE k) |->
                  IF i = k THEN k
                  ELSE IF i <= Len(file.data) THEN file.data[i]
                  ELSE 0]]

\* lines 68-71: the cache check of fetch_topic_content
CacheCheck(p) ==
    /\ run_pc[p] = "check"
    /\ LET got == ReadCacheFile(cache_file)
       IN  /\ run_seen' = [run_seen EXCEPT ![p] = got]
           /\ run_pc' = [run_pc EXCEPT ![p] =
                            IF got.kind = "text" /\ got.data # <<>>
                            THEN "fetched" ELSE "web"]
    /\ UNCHANGED <<run, topics, text_chunks, cache_file, run_pos, notFile>>

\* lines 73-107: search, download, extract; the text is long enough
WebFound(p) ==
    /\ run_pc[p] = "web"
    /\ run_pc' = [run_pc EXCEPT ![p] = "open"]
    /\ UNCHANGED <<run, topics, text_chunks, cache_file, run_pos, run_seen,
                   notFile>>

\* lines 87-89, 112-117: nothing usable was found, "" is returned
WebFailed(p) ==
    /\ run_pc[p] = "web"
    /\ run_pc' = [run_pc EXCEPT ![p] = "fetched"]
    /\ UNCHANGED <<run, topics, text_chunks, cache_file, run_pos, run_seen,
                   notFile>>

\* save_to_cache, line 57
SaveOpen(p) ==
    /\ run_pc[p] = "open"
    /\ cache_file' = Truncated
    /\ run_pos' = [run_pos EXCEPT ![p] = 0]
    /\ run_pc' = [run_pc EXCEPT ![p] = "write"]
    /\ UNCHANGED <<run, topics, text_chunks, run_seen, notFile>>

\* save_to_cache, line 58: the next piece reaches the file
SaveWrite(p) ==
    /\ run_pc[p] = "write"
    /\ run_pos[p] < text_chunks
    /\ cache_file' = WritePiece(cache_file, run_pos[p] + 1)
    /\ run_pos' = [run_pos EXCEPT ![p] = run_pos[p] + 1]
    /\ UNCHANGED <<run, topics, text_chunks, run_pc, run_seen, notFile>>

\* the with-block ends, fetch_topic_content returns the text (lines 109-110)
SaveClose(p) ==
    /\ run_pc[p] = "write"
    /\ run_pos[p] = text_chunks
    /\ run_pc' = [run_pc EXCEPT ![p] = "fetched"]
    /\ UNCHANGED <<run, topics, text_chunks, cache_file, run_pos, run_seen,
                   notFile>>

\* app.py line 57: get_analysis reads the topic's content from the cache
AppReadCache(p) ==
    /\ run_pc[p] = "fetched"
    /\ run_seen' = [run_seen EXCEPT ![p] = ReadCacheFile(cache_file)]
    /\ run_pc' = [run_pc EXCEPT ![p] = "done"]
    /\ UNCHANGED <<run, topics, text_chunks, cache_file, run_pos, notFile>>

FileNext ==
    \E p \in AnalysisRuns :
        \/ CacheCheck(p)
        \/ WebFound(p)
        \/ WebFailed(p)
        \/ SaveOpen(p)
        \/ SaveWrite(p)
        \/ SaveClose(p)
        \/ AppReadCache(p)

\* C13: under every interleaving of save_to_cache and get_cached_content,
\* get_cached_content returns either nothing (None, or the empty text of a
\* file just created) or a complete text that a save_to_cache call wrote;
\* no reader sees a partially written file.
C13_NoPartialRead ==
    \A p \in AnalysisRuns :
        run_seen[p].kind = "text" =>
            \/ run_seen[p].data = <<>>
            \/ run_seen[p].data = CompleteText

(***************************************************************************)
(* Specifications.  A behaviour executes one entry point, named by run;    *)
(* the state of the other entry points stays at its idle value.            *)
(***************************************************************************)
Runs == {"importance", "threshold", "app", "visualizer", "effort", "modes",
         "concurrent"}

Scoring(r) == r \in {"importance", "modes"}

Syllabus(r) == r \in {"app", "visualizer"}

InitFor(r) ==
    /\ run = r
    /\ topics \in
          IF Scoring(r) THEN SeqsBetween(TopicNames, 1, MaxTopics)
          \* load_text_file: the non-blank lines, stripped, repeats included
          ELSE IF Syllabus(r) THEN SeqsBetween(SyllabusLines, 1, MaxSyllabus)
          ELSE {<<>>}
    \* calculate_importance(topics, pyqs=None)
    /\ pyqs \in
          IF r = "importance" THEN SeqsBetween(QuestionNames, 0, MaxQuestions)
          ELSE {<<>>}
    /\ pyqs_none \in IF Scoring(r) /\ pyqs = <<>> THEN BOOLEAN ELSE {FALSE}
    /\ cos_tq \in
          IF Scoring(r) THEN [TopicNames \X QuestionNames -> SimValuesTQ]
          ELSE {<<>>}
    /\ imp_pc = IF Scoring(r) THEN "call" ELSE "idle"
    /\ imp_i = 0
    /\ importance_scores = <<>>
    /\ encode_calls = 0
    /\ node_data = <<>>
    \* the row scoring under two thresholds
    /\ thr_lo \in IF r = "threshold" THEN Thresholds ELSE {0}
    /\ thr_hi \in IF r = "threshold" THEN {t \in Thresholds : t >= thr_lo} ELSE {0}
    /\ thr_row \in
          IF r = "threshold" THEN SeqsBetween(SimValuesTQ, 0, MaxRow) ELSE {<<>>}
    /\ thr_pc = IF r = "threshold" THEN "call" ELSE "idle"
    /\ thr_out = NoOutcome
    \* analyze_deep_relations(topics), the web and the cache directory
    /\ web_len \in IF Syllabus(r) THEN [SyllabusLines -> ContentLens(r)] ELSE {<<>>}
    /\ cache = IF Syllabus(r) THEN [t \in SyllabusLines |-> 0] ELSE <<>>
    /\ cos_cc \in
          IF Syllabus(r)
          THEN [{e \in SUBSET SyllabusLines : Cardinality(e) = 2} -> SimValuesCC(r)]
          ELSE {<<>>}
    /\ rel_pc = IF Syllabus(r) THEN "gather" ELSE "idle"
    /\ rel_i = 1
    /\ valid_topics = <<>>
    /\ topic_contents = <<>>
    /\ relations = <<>>
    \* the graph of the caller
    /\ min_strength = 0
    /\ focus_topic = "None"
    /\ G_nodes = {}
    /\ G_edges = <<>>
    /\ gmc_parts = {}
    /\ communities = <<>>
    /\ topic_colors = <<>>
    /\ node_color = <<>>
    \* estimate_effort(text)
    /\ eff_text \in
          IF r = "effort" THEN EffortTexts
          ELSE {[none |-> TRUE, len |-> 0, words |-> 0, hits |-> 0, ease |-> 0]}
    /\ eff_pc = IF r = "effort" THEN "call" ELSE "idle"
    /\ eff_work = NoWork
    /\ eff_out = NoEffort
    \* the first call has no questions, the second has these
    /\ mode_calls = IF r = "modes" THEN 1 ELSE 0
    /\ pyqs_next \in
          IF r = "modes" THEN SeqsBetween(QuestionNames, 1, MaxQuestions)
          ELSE {<<>>}
    /\ first_scores = <<>>
    /\ first_data = <<>>
    \* two runs about to fetch the same topic; the cache directory is empty
    /\ text_chunks \in IF r = "concurrent" THEN 1..MaxChunks ELSE {1}
    /\ cache_file = [exists |-> FALSE, data |-> <<>>]
    /\ run_pc = [p \in AnalysisRuns |-> IF r = "concurrent" THEN "check" ELSE "idle"]
    /\ run_pos = [p \in AnalysisRuns |-> 0]
    /\ run_seen = [p \in AnalysisRuns |-> NothingSeen]

Init == \E r \in Runs : InitFor(r)

Next ==
    ImpNext \/ ThrNext \/ AppNext \/ VisNext \/ EffNext \/ CallAgain \/ FileNext

Spec == Init /\ [][Next]_vars

SpecImportance == InitFor("importance") /\ [][ImpNext]_vars

SpecThreshold == InitFor("threshold") /\ [][ThrNext]_vars

SpecApp == InitFor("app") /\ [][AppNext]_vars

SpecVisualizer == InitFor("visualizer") /\ [][VisNext]_vars

SpecEffort == InitFor("effort") /\ [][EffNext]_vars

SpecModes == InitFor("modes") /\ [][ModesNext]_vars

SpecConcurrent == InitFor("concurrent") /\ [][FileNext]_vars

====
